---- MODULE Spec2Model ----
(***************************************************************************)
(* A state-machine model of lib/mutgen.c: the mutation generator that      *)
(* overlays mutations on a genealogy (node/edge tables) under a            *)
(* piecewise-constant rate map.                                            *)
(*                                                                         *)
(* Genomic positions and times are doubles in the source; here they are    *)
(* integers on a grid 0..SeqLen, so that the interval [left, right) holds  *)
(* right - left representable positions.  Row and site ids are 0-based as  *)
(* in the source; the sequences that hold the rows are 1-based.            *)
(***************************************************************************)
EXTENDS Integers, Sequences, FiniteSets, TLC

(* ------------------------------ bounds -------------------------------- *)
\* tables->sequence_length of the genealogies fed to generate.
SeqLen == 4
\* The largest count one Poisson draw returns.
MaxK == 2
\* The number of states of the random generator.
RngMod == 8
\* Stands for DBL_MAX, the default time window's bound: any value above
\* every node time of the model.
DBL_MAX == 9

(* ----------------------------- constants ------------------------------ *)
TSK_NULL == -1
MSP_ALPHABET_BINARY == 0
MSP_ALPHABET_NUCLEOTIDE == 1

OK == "0"
MSP_ERR_BAD_PARAM_VALUE == "MSP_ERR_BAD_PARAM_VALUE"
MSP_ERR_BAD_MUTATION_MAP_SIZE == "MSP_ERR_BAD_MUTATION_MAP_SIZE"
MSP_ERR_BAD_MUTATION_MAP_POSITION == "MSP_ERR_BAD_MUTATION_MAP_POSITION"
MSP_ERR_BAD_MUTATION_MAP_RATE == "MSP_ERR_BAD_MUTATION_MAP_RATE"
MSP_ERR_INCOMPATIBLE_MUTATION_MAP == "MSP_ERR_INCOMPATIBLE_MUTATION_MAP"
MSP_ERR_DUPLICATE_SITE_POSITION == "MSP_ERR_DUPLICATE_SITE_POSITION"
\* Whatever tsk_table_collection_check_integrity reports, passed through
\* msp_set_tsk_error.
TSK_ERR_INTEGRITY == "TSK_ERR_INTEGRITY"

binary_mutation_types == << [ancestral_state |-> "0", derived_state |-> "1"] >>

acgt_mutation_types ==
    << [ancestral_state |-> "A", derived_state |-> "C"],
       [ancestral_state |-> "A", derived_state |-> "G"],
       [ancestral_state |-> "A", derived_state |-> "T"],
       [ancestral_state |-> "C", derived_state |-> "A"],
       [ancestral_state |-> "C", derived_state |-> "G"],
       [ancestral_state |-> "C", derived_state |-> "T"],
       [ancestral_state |-> "G", derived_state |-> "A"],
       [ancestral_state |-> "G", derived_state |-> "C"],
       [ancestral_state |-> "G", derived_state |-> "T"],
       [ancestral_state |-> "T", derived_state |-> "A"],
       [ancestral_state |-> "T", derived_state |-> "C"],
       [ancestral_state |-> "T", derived_state |-> "G"] >>

GSL_MAX(a, b) == IF a > b THEN a ELSE b
GSL_MIN(a, b) == IF a < b THEN a ELSE b

(* ------------------------------- state -------------------------------- *)
VARIABLES
    \* mutgen_t
    map,            \* [size, position (size + 1 cells, the last the sentinel), rate]
    start_time, end_time,
    alphabet,
    sites,          \* self->sites: the AVL tree, as its in-order list of sites
    rng,            \* the state of self->rng
    \* the caller's tsk_table_collection_t
    tables,
    \* the last API call and what it returned
    op, ret,
    \* mutgen_generate: where it is, its flags and its locals
    pc, flags, j, left, right, branch_length, map_index, mu,
    branch_mutations, l, position,
    \* history: the tables and generator state at entry of the current call,
    \* one record per Poisson draw of the call, the random draws of the call
    \* in order (a run of position draws for one mutation is one record), the
    \* number of generate calls so far and the first call's outcome
    entry, log, draws, calls, prev

instance == <<map, start_time, end_time, alphabet>>
locals == <<j, left, right, branch_length, map_index, mu, branch_mutations, l, position>>
history == <<entry, log, draws, calls, prev>>
vars == <<map, start_time, end_time, alphabet, sites, rng, tables, op, ret,
          pc, flags, j, left, right, branch_length, map_index, mu,
          branch_mutations, l, position, entry, log, draws, calls, prev>>

(* --------------------------- the generator ---------------------------- *)
\* gsl_rng: a deterministic generator with RngMod states (a full-period
\* linear congruential step); every draw reads the state and advances it.
gsl_rng_next(s) == (5 * s + 3) % RngMod

\* gsl_ran_poisson(rng, mu): a count in 0..MaxK; 0 whenever mu <= 0.
gsl_ran_poisson(s, mean) == IF mean > 0 THEN (s * (MaxK + 1)) \div RngMod ELSE 0

\* gsl_ran_flat(rng, a, b) = a + u * (b - a), on the grid.
gsl_ran_flat(s, a, b) == a + (s * (b - a)) \div RngMod

\* gsl_rng_uniform_int(rng, n): an index in 0..n-1.
gsl_rng_uniform_int(s, n) == (s * n) \div RngMod

(* ----------------------------- rate map ------------------------------- *)
\* Values an uninitialised or out-of-bounds cell may hold.
Indeterminate == {0, 1}

\* The first index j (0-based) at which the loop of mutgen_set_map fails,
\* or size when it runs to its end.
RECURSIVE FirstBad(_, _, _)
FirstBad(arg_position, arg_rate, k) ==
    IF k >= Len(arg_position) THEN k
    ELSE IF (k > 0 /\ arg_position[k] >= arg_position[k + 1]) \/ arg_rate[k + 1] < 0
         THEN k
         ELSE FirstBad(arg_position, arg_rate, k + 1)

\* The return value of mutgen_set_map(size, position, rate), size = Len(position).
SetMapRet(arg_position, arg_rate) ==
    LET size == Len(arg_position)
        bad == FirstBad(arg_position, arg_rate, 0)
    IN IF size < 1 THEN MSP_ERR_BAD_MUTATION_MAP_SIZE
       ELSE IF arg_position[1] # 0 THEN MSP_ERR_BAD_MUTATION_MAP_POSITION
       ELSE IF bad >= size THEN OK
       ELSE IF bad > 0 /\ arg_position[bad] >= arg_position[bad + 1]
            THEN MSP_ERR_BAD_MUTATION_MAP_POSITION
            ELSE MSP_ERR_BAD_MUTATION_MAP_RATE

\* self->map.size after the call: assigned only once size and position[0]
\* have passed.
SetMapSize(arg_position) ==
    IF Len(arg_position) < 1 \/ arg_position[1] # 0 THEN map.size ELSE Len(arg_position)

\* The number of leading cells the loop copied before it returned.
SetMapWritten(arg_position, arg_rate) ==
    IF Len(arg_position) < 1 \/ arg_position[1] # 0 THEN 0
    ELSE FirstBad(arg_position, arg_rate, 0)

\* mutgen_set_map: the old arrays are freed and new ones allocated before
\* anything is validated; the cells the loop does not reach (the sentinel
\* cell among them) are not initialised, gp and gr being what they hold.
mutgen_set_map(arg_position, arg_rate, gp, gr) ==
    LET size == SetMapSize(arg_position)
        written == SetMapWritten(arg_position, arg_rate)
    IN /\ map' = [size |-> size,
                  position |-> [i \in 1..(size + 1) |->
                                  IF i <= written THEN arg_position[i] ELSE gp],
                  rate |-> [i \in 1..size |->
                                  IF i <= written THEN arg_rate[i] ELSE gr]]
       /\ ret' = SetMapRet(arg_position, arg_rate)

\* The maps the caller offers to mutgen_set_map: valid ones (the last is
\* valid but does not fit the sequence), and one for each validation failure.
MapArgs ==
    { [position |-> <<0, 2>>, rate |-> <<1, 1>>],
      [position |-> <<0, 1, 3>>, rate |-> <<1, 0, 1>>],
      [position |-> <<0, SeqLen>>, rate |-> <<1, 1>>],
      [position |-> <<>>, rate |-> <<>>],
      [position |-> <<1>>, rate |-> <<1>>],
      [position |-> <<0, 2, 2>>, rate |-> <<1, 1, 1>>],
      [position |-> <<0, 2>>, rate |-> <<1, -1>>] }

SetMap ==
    /\ pc = "idle" /\ calls = 0
    /\ \E a \in MapArgs : \E gp \in Indeterminate, gr \in Indeterminate :
          mutgen_set_map(a.position, a.rate, gp, gr)
    /\ op' = "set_map"
    /\ UNCHANGED <<start_time, end_time, alphabet, sites, rng, tables, pc, flags>>
    /\ UNCHANGED locals /\ UNCHANGED history

\* mutgen_set_rate(rate) = mutgen_set_map(1, {0}, {rate}).
SetRate ==
    /\ pc = "idle" /\ calls = 0
    /\ \E rate \in {0, 1} : \E gp \in Indeterminate, gr \in Indeterminate :
          mutgen_set_map(<<0>>, <<rate>>, gp, gr)
    /\ op' = "set_rate"
    /\ UNCHANGED <<start_time, end_time, alphabet, sites, rng, tables, pc, flags>>
    /\ UNCHANGED locals /\ UNCHANGED history

(* --------------------------- time interval ---------------------------- *)
TimeArgs == { <<1, 1>>, <<2, 2>>, <<1, 0>> }

SetTimeInterval ==
    /\ pc = "idle" /\ calls = 0
    /\ \E a \in TimeArgs :
          IF a[2] < a[1]
          THEN /\ ret' = MSP_ERR_BAD_PARAM_VALUE
               /\ UNCHANGED <<start_time, end_time>>
          ELSE /\ ret' = OK
               /\ start_time' = a[1]
               /\ end_time' = a[2]
    /\ op' = "set_time_interval"
    /\ UNCHANGED <<map, alphabet, sites, rng, tables, pc, flags>>
    /\ UNCHANGED locals /\ UNCHANGED history

(* ------------------------------ tables -------------------------------- *)
\* tsk_table_collection_check_integrity(tables, TSK_CHECK_OFFSETS): every
\* reference is in range and every edge is a proper interval under an older
\* parent.  Row ordering and duplicate site positions are not part of it.
check_integrity(t) ==
    /\ \A e \in 1..Len(t.edges) :
          /\ t.edges[e].parent \in 0..(Len(t.time) - 1)
          /\ t.edges[e].child \in 0..(Len(t.time) - 1)
          /\ 0 <= t.edges[e].left
          /\ t.edges[e].left < t.edges[e].right
          /\ t.edges[e].right <= t.sequence_length
          /\ t.time[t.edges[e].parent + 1] > t.time[t.edges[e].child + 1]
    /\ \A s \in 1..Len(t.sites) :
          0 <= t.sites[s].position /\ t.sites[s].position < t.sequence_length
    /\ \A m \in 1..Len(t.mutations) :
          /\ t.mutations[m].site \in 0..(Len(t.sites) - 1)
          /\ t.mutations[m].node \in 0..(Len(t.time) - 1)
          /\ t.mutations[m].parent \in TSK_NULL..(Len(t.mutations) - 1)

\* tsk_search_sorted(array, size, value): bisection for the last cell that is
\* <= value, plus one when that cell is < value.
RECURSIVE Bisect(_, _, _, _)
Bisect(array, value, lower, upper) ==
    IF upper - lower > 1
    THEN LET mid == (upper + lower) \div 2
         IN IF value >= array[mid + 1]
            THEN Bisect(array, value, mid, upper)
            ELSE Bisect(array, value, lower, mid)
    ELSE lower

tsk_search_sorted(array, size, value) ==
    IF size = 0 THEN 0
    ELSE LET lower == Bisect(array, value, 0, size)
         IN lower + (IF array[lower + 1] < value THEN 1 ELSE 0)

(* ---------------------------- site registry --------------------------- *)
\* avl_search(&self->sites, &search) != NULL, under cmp_site.
avl_search(tree, pos) == \E a \in 1..Len(tree) : tree[a].position = pos

\* avl_insert_node of a site whose position the tree does not hold: the
\* in-order list with the site at its place.
avl_insert_node(tree, site) ==
    LET k == Cardinality({a \in 1..Len(tree) : tree[a].position < site.position})
    IN SubSeq(tree, 1, k) \o <<site>> \o SubSeq(tree, k + 1, Len(tree))

\* A generate that starts from the tree the previous call left.
LeftoverSites == sites

\* avl_clear_tree(&self->sites) at the start of mutgen_generate.
ClearedSites == << >>

\* mutgen_add_mutation: a new site with one mutation, parent TSK_NULL and id
\* 0 (the memset), ancestral and derived states of length 1, no metadata.
mutgen_add_mutation(tree, node, pos, ancestral_state, derived_state) ==
    avl_insert_node(tree,
        [position |-> pos, ancestral_state |-> ancestral_state, metadata |-> "",
         mutations |-> << [id |-> 0, node |-> node, parent |-> TSK_NULL,
                           derived_state |-> derived_state, metadata |-> ""] >>])

(* ------------------------------ importer ------------------------------ *)
\* An importer that takes at most one mutation row per site (an if in place
\* of the while).
RunEndOne(mutations, jj, site_id) ==
    IF jj < Len(mutations) /\ mutations[jj + 1].site = site_id THEN jj + 1 ELSE jj

\* The while loop of mutget_initialise_sites: the first row at or after jj
\* whose site is not site_id.
RECURSIVE RunEnd(_, _, _)
RunEnd(mutations, jj, site_id) ==
    IF jj < Len(mutations) /\ mutations[jj + 1].site = site_id
    THEN RunEnd(mutations, jj + 1, site_id)
    ELSE jj

\* The site built for row site_id, with the num_mutations rows that start at
\* mutation_id, each flagged id = 1 (imported).
ImportedSite(t, site_id, mutation_id, num_mutations) ==
    [position |-> t.sites[site_id + 1].position,
     ancestral_state |-> t.sites[site_id + 1].ancestral_state,
     metadata |-> t.sites[site_id + 1].metadata,
     mutations |-> [k \in 1..num_mutations |->
        [id |-> 1,
         node |-> t.mutations[mutation_id + k].node,
         parent |-> t.mutations[mutation_id + k].parent,
         derived_state |-> t.mutations[mutation_id + k].derived_state,
         metadata |-> t.mutations[mutation_id + k].metadata]]]

\* Whether the insert of an imported site is refused (avl_insert_node
\* returned NULL).
ImportRejects(tree, site) == avl_search(tree, site.position)

\* mutget_initialise_sites from row site_id on: [ret, sites].
RECURSIVE ImportFrom(_, _, _, _)
ImportFrom(t, site_id, mutation_id, tree) ==
    IF site_id >= Len(t.sites) THEN [ret |-> OK, sites |-> tree]
    ELSE LET num_mutations == RunEnd(t.mutations, mutation_id, site_id) - mutation_id
             site == ImportedSite(t, site_id, mutation_id, num_mutations)
         IN IF ImportRejects(tree, site)
            THEN [ret |-> MSP_ERR_DUPLICATE_SITE_POSITION, sites |-> tree]
            ELSE ImportFrom(t, site_id + 1, mutation_id + num_mutations,
                            avl_insert_node(tree, site))

mutget_initialise_sites(t) == ImportFrom(t, 0, 0, ClearedSites)

(* --------------------------- table populator -------------------------- *)
\* A populator that copies the parent as it stands.
NoShift(parent, new_mutations) == parent

\* The parent written for a mutation: shifted by the generated mutations
\* emitted so far unless it is TSK_NULL.
ShiftParent(parent, new_mutations) ==
    IF parent # TSK_NULL THEN parent + new_mutations ELSE parent

\* The inner loop of mutgen_populate_tables, from mutation k (1-based) of
\* site on: [mutations, new_mutations].
RECURSIVE AddMutationRows(_, _, _, _, _)
AddMutationRows(site, site_id, k, rows, new_mutations) ==
    IF k > Len(site.mutations) THEN [mutations |-> rows, new_mutations |-> new_mutations]
    ELSE LET mutation == site.mutations[k]
             row == [site |-> site_id, node |-> mutation.node,
                     parent |-> ShiftParent(mutation.parent, new_mutations),
                     derived_state |-> mutation.derived_state,
                     metadata |-> mutation.metadata]
         IN AddMutationRows(site, site_id, k + 1, Append(rows, row),
                            IF mutation.id = 0 THEN new_mutations + 1 ELSE new_mutations)

\* The outer loop, from tree node a on: [sites, mutations].
RECURSIVE PopulateFrom(_, _, _, _, _)
PopulateFrom(tree, a, site_rows, mutation_rows, new_mutations) ==
    IF a > Len(tree) THEN [sites |-> site_rows, mutations |-> mutation_rows]
    ELSE LET site == tree[a]
             site_id == Len(site_rows)
             added == AddMutationRows(site, site_id, 1, mutation_rows, new_mutations)
         IN PopulateFrom(tree, a + 1,
                Append(site_rows, [position |-> site.position,
                                   ancestral_state |-> site.ancestral_state,
                                   metadata |-> site.metadata]),
                added.mutations, added.new_mutations)

\* mutgen_populate_tables(self, &tables->sites, &tables->mutations).
mutgen_populate_tables(tree, t) ==
    LET out == PopulateFrom(tree, 1, t.sites, t.mutations, 0)
    IN [t EXCEPT !.sites = out.sites, !.mutations = out.mutations]

(* ------------------------------ generate ------------------------------ *)
mutation_types == IF alphabet = 0 THEN binary_mutation_types ELSE acgt_mutation_types
num_mutation_types == IF alphabet = 0 THEN 1 ELSE 12

\* self->map.position[i], i in 0..size (cell size is the sentinel).
MapPosition(i) == map.position[i + 1]

\* The locals are dead outside a call.
ResetLocals ==
    /\ j' = 0 /\ left' = 0 /\ right' = 0 /\ branch_length' = 0 /\ map_index' = 0
    /\ mu' = 0 /\ branch_mutations' = 0 /\ l' = 0 /\ position' = 0

\* A generate that clears the site and mutation tables before it looks at
\* what the import returned.
TablesClearedFirst(t, import_ret) == [t EXCEPT !.sites = << >>, !.mutations = << >>]

\* Lines 451-458: the tables once the import has returned import_ret: the
\* site and mutation tables are cleared only when it returned 0.
TablesAfterImport(t, import_ret) ==
    IF import_ret # OK THEN t ELSE [t EXCEPT !.sites = << >>, !.mutations = << >>]

\* mutgen_generate up to its edge loop, called on tables t with the generator
\* in state r: the tree is cleared, the tables checked, the sentinel written,
\* the map checked against the sequence length, the existing sites imported
\* (MSP_KEEP_SITES) and only then the site and mutation tables cleared.
\* (mutgen_init_allocator sizes the blocks to the largest request the tables
\* can cause, so that no tsk_blkalloc_get of the call fails.)
GenerateCall(t, r, keep) ==
    LET sentinel == [map EXCEPT !.position[map.size + 1] = t.sequence_length]
        imported == IF keep THEN mutget_initialise_sites(t)
                    ELSE [ret |-> OK, sites |-> ClearedSites]
    IN /\ pc = "idle"
       /\ op' = "generate"
       /\ flags' = keep
       /\ rng' = r
       /\ entry' = [tables |-> t, rng |-> r]
       /\ log' = << >>
       /\ draws' = << >>
       /\ calls' = calls + 1
       /\ ResetLocals
       /\ UNCHANGED <<start_time, end_time, alphabet>>
       /\ IF ~check_integrity(t)
          THEN /\ ret' = TSK_ERR_INTEGRITY
               /\ sites' = ClearedSites
               /\ tables' = t
               /\ UNCHANGED <<map, pc>>
          ELSE IF sentinel.position[map.size] >= t.sequence_length
          THEN /\ ret' = MSP_ERR_INCOMPATIBLE_MUTATION_MAP
               /\ map' = sentinel
               /\ sites' = ClearedSites
               /\ tables' = t
               /\ UNCHANGED pc
          ELSE IF imported.ret # OK
          THEN /\ ret' = imported.ret
               /\ map' = sentinel
               /\ sites' = imported.sites
               /\ tables' = TablesAfterImport(t, imported.ret)
               /\ UNCHANGED pc
          ELSE /\ ret' = OK
               /\ map' = sentinel
               /\ sites' = imported.sites
               /\ tables' = TablesAfterImport(t, imported.ret)
               /\ pc' = "edge"

\* The caller's first call of mutgen_generate, on the tables as they are.
Generate ==
    /\ calls = 0
    /\ \E keep \in BOOLEAN : GenerateCall(tables, rng, keep)
    /\ UNCHANGED prev

\* The caller's second call: same flags, on the same input tables and from
\* the same generator state as the first, on the instance as the first call
\* left it.
GenerateAgain ==
    /\ calls = 1 /\ op = "generate"
    /\ GenerateCall(entry.tables, entry.rng, flags)
    /\ prev' = [ret |-> ret, tables |-> tables]

\* Lines 468-482: the next edge, its clipped branch length and the map
\* interval that holds its left end.
EdgeStart ==
    /\ pc = "edge" /\ j < Len(tables.edges)
    /\ LET edge == tables.edges[j + 1]
           branch_start == GSL_MAX(start_time, tables.time[edge.child + 1])
           branch_end == GSL_MIN(end_time, tables.time[edge.parent + 1])
           found == tsk_search_sorted(map.position, map.size, edge.left)
       IN /\ left' = edge.left
          /\ branch_length' = branch_end - branch_start
          /\ map_index' = IF MapPosition(found) > edge.left THEN found - 1 ELSE found
    /\ right' = 0
    /\ pc' = "interval"
    /\ UNCHANGED <<map, start_time, end_time, alphabet, sites, rng, tables, op, ret, flags,
                   j, mu, branch_mutations, l, position>>
    /\ UNCHANGED history

\* The right end of the current sub-interval (line 484).
IntervalRight(edge_right) == GSL_MIN(edge_right, MapPosition(map_index + 1))

\* The Poisson mean of the current sub-interval (line 485).
PoissonMean(new_right, rate) == branch_length * (new_right - left) * rate

\* Lines 483-486: one more sub-interval of the edge: its right end, its mean
\* and its Poisson count.  self->map.rate[map_index] is read out of bounds
\* when map_index has stepped below 0.
PoissonDraw ==
    /\ pc = "interval" /\ right # tables.edges[j + 1].right
    /\ \E g \in Indeterminate :
          LET new_right == IntervalRight(tables.edges[j + 1].right)
              rate == IF map_index \in 0..(map.size - 1) THEN map.rate[map_index + 1] ELSE g
              mean == PoissonMean(new_right, rate)
              k == gsl_ran_poisson(rng, mean)
          IN /\ right' = new_right
             /\ mu' = mean
             /\ branch_mutations' = k
             /\ log' = Append(log, [edge |-> j, map_index |-> map_index, left |-> left,
                                    right |-> new_right, rate |-> rate,
                                    branch_length |-> branch_length, mu |-> mean, k |-> k])
    /\ rng' = gsl_rng_next(rng)
    /\ l' = 0
    /\ draws' = Append(draws, [kind |-> "poisson", edge |-> j, map_index |-> map_index,
                                l |-> 0, k |-> branch_mutations'])
    /\ pc' = "mutation"
    /\ UNCHANGED <<map, start_time, end_time, alphabet, sites, tables, op, ret, flags,
                   j, left, branch_length, map_index, position, entry, calls, prev>>

\* Line 483, loop exit: the edge is done.
EdgeDone ==
    /\ pc = "interval" /\ right = tables.edges[j + 1].right
    /\ j' = j + 1
    /\ pc' = "edge"
    /\ UNCHANGED <<map, start_time, end_time, alphabet, sites, rng, tables, op, ret, flags,
                   left, right, branch_length, map_index, mu, branch_mutations, l, position>>
    /\ UNCHANGED history

\* A generator without the rejection loop: every drawn position is taken.
RejectedNever(pos) == FALSE

\* Whether a drawn position is rejected (avl_search found a site there).
Rejected(pos) == avl_search(sites, pos)

\* Lines 490-494: one pass of the rejection loop.
PositionDraw ==
    /\ pc = "mutation" /\ l < branch_mutations
    /\ position' = gsl_ran_flat(rng, left, right)
    /\ rng' = gsl_rng_next(rng)
    /\ LET draw == [kind |-> "position", edge |-> j, map_index |-> map_index,
                     l |-> l, k |-> branch_mutations]
       IN draws' = IF draws[Len(draws)] = draw THEN draws ELSE Append(draws, draw)
    /\ pc' = IF Rejected(position') THEN "mutation" ELSE "type"
    /\ UNCHANGED <<map, start_time, end_time, alphabet, sites, tables, op, ret, flags,
                   j, left, right, branch_length, map_index, mu, branch_mutations, l,
                   entry, log, calls, prev>>

\* Lines 496-503: the mutation type is drawn and the site added.
TypeDraw ==
    /\ pc = "type"
    /\ LET type == gsl_rng_uniform_int(rng, num_mutation_types)
       IN sites' = mutgen_add_mutation(sites, tables.edges[j + 1].child, position,
                        mutation_types[type + 1].ancestral_state,
                        mutation_types[type + 1].derived_state)
    /\ rng' = gsl_rng_next(rng)
    /\ draws' = Append(draws, [kind |-> "type", edge |-> j, map_index |-> map_index,
                                l |-> l, k |-> branch_mutations])
    /\ l' = l + 1
    /\ pc' = "mutation"
    /\ UNCHANGED <<map, start_time, end_time, alphabet, tables, op, ret, flags,
                   j, left, right, branch_length, map_index, mu, branch_mutations, position,
                   entry, log, calls, prev>>

\* A sub-interval loop that does not step to the next map interval.
IntervalDoneNoStep ==
    /\ pc = "mutation" /\ l >= branch_mutations
    /\ map_index' = map_index
    /\ pc' = "interval"
    /\ UNCHANGED <<map, start_time, end_time, alphabet, sites, rng, tables, op, ret, flags,
                   j, left, right, branch_length, mu, branch_mutations, l, position>>
    /\ UNCHANGED history

\* Lines 487 and 504: the mutations of the sub-interval are placed.
IntervalDone ==
    /\ pc = "mutation" /\ l >= branch_mutations
    /\ map_index' = map_index + 1
    /\ pc' = "interval"
    /\ UNCHANGED <<map, start_time, end_time, alphabet, sites, rng, tables, op, ret, flags,
                   j, left, right, branch_length, mu, branch_mutations, l, position>>
    /\ UNCHANGED history

\* Lines 507-512: the tree is written to the tables and the call returns.
Populate ==
    /\ pc = "edge" /\ j >= Len(tables.edges)
    /\ tables' = mutgen_populate_tables(sites, tables)
    /\ ret' = OK
    /\ pc' = "idle"
    /\ ResetLocals
    /\ UNCHANGED <<map, start_time, end_time, alphabet, sites, rng, op, flags>>
    /\ UNCHANGED history

(* ------------------------------- inputs ------------------------------- *)
NodeTimes == <<0, 0, 1, 2>>

Edge(lo, hi, p, c) == [left |-> lo, right |-> hi, parent |-> p, child |-> c]
Site(pos, a, md) == [position |-> pos, ancestral_state |-> a, metadata |-> md]
Mutation(s, n, p, d, md) ==
    [site |-> s, node |-> n, parent |-> p, derived_state |-> d, metadata |-> md]

EdgeTables ==
    { << Edge(0, SeqLen, 2, 0) >>,
      << Edge(0, 2, 2, 0), Edge(1, SeqLen, 3, 1) >> }

\* Existing sites and mutations: none; two sites in position order with
\* stacked mutations; the same with the sites out of position order; two
\* sites at one position; mutations out of site order; a parent that is a
\* later row.
SiteTables ==
    { [sites |-> << >>, mutations |-> << >>],
      [sites |-> << Site(1, "A", "s0"), Site(3, "0", "") >>,
       mutations |-> << Mutation(0, 0, TSK_NULL, "C", "m0"), Mutation(0, 1, 0, "G", ""),
                        Mutation(1, 0, TSK_NULL, "1", ""), Mutation(1, 1, 2, "0", "m3") >>],
      [sites |-> << Site(3, "A", "s0"), Site(1, "0", "") >>,
       mutations |-> << Mutation(0, 0, TSK_NULL, "C", "m0"), Mutation(0, 1, 0, "G", ""),
                        Mutation(1, 0, TSK_NULL, "1", ""), Mutation(1, 1, 2, "0", "m3") >>],
      [sites |-> << Site(1, "A", ""), Site(1, "C", "") >>,
       mutations |-> << Mutation(0, 0, TSK_NULL, "C", "") >>],
      [sites |-> << Site(1, "A", ""), Site(3, "0", "") >>,
       mutations |-> << Mutation(1, 0, TSK_NULL, "1", ""), Mutation(0, 1, TSK_NULL, "C", "") >>],
      [sites |-> << Site(1, "A", "") >>,
       mutations |-> << Mutation(0, 0, 1, "C", ""), Mutation(0, 1, TSK_NULL, "G", "") >>] }

Tables(edges, sm) ==
    [sequence_length |-> SeqLen, time |-> NodeTimes, edges |-> edges,
     sites |-> sm.sites, mutations |-> sm.mutations]

\* Tables the integrity check refuses: an empty edge interval, a mutation of
\* a site that is not there.
BadTables ==
    { Tables(<< Edge(2, 2, 2, 0) >>, [sites |-> << >>, mutations |-> << >>]),
      Tables(<< Edge(0, SeqLen, 2, 0) >>,
             [sites |-> << Site(1, "A", "") >>,
              mutations |-> << Mutation(1, 0, TSK_NULL, "C", "") >>]) }

InputTables == { Tables(e, sm) : e \in EdgeTables, sm \in SiteTables } \cup BadTables

(* ---------------------------- specification --------------------------- *)
\* mutgen_alloc: the default rate 0 over the whole sequence (the sentinel
\* cell not yet written), the whole time axis, an empty tree.
Init ==
    /\ alphabet \in {MSP_ALPHABET_BINARY, MSP_ALPHABET_NUCLEOTIDE}
    /\ \E gp \in Indeterminate : map = [size |-> 1, position |-> <<0, gp>>, rate |-> <<0>>]
    /\ start_time = -DBL_MAX
    /\ end_time = DBL_MAX
    /\ sites = << >>
    /\ rng \in 0..(RngMod - 1)
    /\ tables \in InputTables
    /\ op = "alloc" /\ ret = OK
    /\ pc = "idle" /\ flags = FALSE
    /\ j = 0 /\ left = 0 /\ right = 0 /\ branch_length = 0 /\ map_index = 0
    /\ mu = 0 /\ branch_mutations = 0 /\ l = 0 /\ position = 0
    /\ entry = [tables |-> tables, rng |-> rng]
    /\ log = << >>
    /\ draws = << >>
    /\ calls = 0
    /\ prev = [ret |-> OK, tables |-> tables]

Next ==
    \/ SetMap
    \/ SetRate
    \/ SetTimeInterval
    \/ Generate
    \/ GenerateAgain
    \/ EdgeStart
    \/ PoissonDraw
    \/ PositionDraw
    \/ TypeDraw
    \/ IntervalDone
    \/ EdgeDone
    \/ Populate

Spec == Init /\ [][Next]_vars

\* mutgen_generate is straight-line code on one thread: a call that has
\* started keeps taking its next step.
GenerateStep ==
    EdgeStart \/ PoissonDraw \/ PositionDraw \/ TypeDraw \/ IntervalDone \/ EdgeDone
    \/ Populate

LiveSpec == Spec /\ WF_vars(GenerateStep)

(* ------------------------------ properties ---------------------------- *)
\* A call of mutgen_generate has returned, and returned 0.
Returned == op = "generate" /\ pc = "idle"
Succeeded == Returned /\ ret = OK

\* What a rate map is: size, breakpoints (without the sentinel) and rates.
MapView(m) == [size |-> m.size, position |-> SubSeq(m.position, 1, m.size), rate |-> m.rate]

\* The installed map is one that mutgen_set_map accepts.
ValidMap ==
    /\ map.size >= 1
    /\ map.position[1] = 0
    /\ \A i \in 2..map.size : map.position[i - 1] < map.position[i]
    /\ \A i \in 1..map.size : map.rate[i] >= 0

\* The maps mutgen_set_map and mutgen_set_rate accept from the caller.
AcceptedMaps ==
    { [size |-> Len(a.position), position |-> a.position, rate |-> a.rate] :
        a \in {b \in MapArgs : SetMapRet(b.position, b.rate) = OK} }
    \cup { [size |-> 1, position |-> <<0>>, rate |-> <<r>>] : r \in {0, 1} }

\* C1: a call of set_map (or set_rate) that fails validation leaves the
\* installed map, its size, positions and rates, as it was before the call.
C1_FailedSetMapKeepsMap ==
    [][(op' \in {"set_map", "set_rate"} /\ ret' # OK) => MapView(map') = MapView(map)]_vars

\* C7: an edge whose clipped branch length is <= 0 gets no Poisson draw at
\* all (the length is checked before a mean is formed) and no mutation.
C7_NoDrawOnEmptyBranch ==
    \A i \in 1..Len(log) : log[i].branch_length > 0

\* The sub-interval of the map that draw d of the log is for: the map
\* interval d.map_index cut to the edge.
SubLeft(d) == GSL_MAX(tables.edges[d.edge + 1].left, MapPosition(d.map_index))
SubRight(d) == GSL_MIN(tables.edges[d.edge + 1].right, MapPosition(d.map_index + 1))

\* C8: under a valid map, every Poisson draw of an edge is for the
\* sub-interval [a, b) of the map cut to the edge, with mean
\* branch_length * (b - a) * rate, and every position generated for it
\* lies in [a, b).
C8_MeanAndPositionOfSubInterval ==
    (ValidMap /\ MapView(map) \in AcceptedMaps /\ pc # "idle") =>
        /\ \A i \in 1..Len(log) :
              log[i].mu = log[i].branch_length * (SubRight(log[i]) - SubLeft(log[i])) * log[i].rate
        /\ pc = "type" =>
              /\ SubLeft(log[Len(log)]) <= position
              /\ position < SubRight(log[Len(log)])

\* Two rows of a site table at one position.
HasDuplicatePosition(rows) ==
    \E a, b \in 1..Len(rows) : a # b /\ rows[a].position = rows[b].position

\* The last breakpoint of the installed map lies inside the sequence.
CompatibleMap(t) == map.position[map.size] < t.sequence_length

\* C2: after a successful generate, with or without keep_existing_sites, no
\* two rows of the site table share a position; a position is accepted
\* (the type is drawn for it) only when the tree holds no site at it; and a
\* duplicate among the imported sites makes the call fail with
\* DuplicateSitePosition.
C2_UniqueSitePositions ==
    /\ Succeeded => ~HasDuplicatePosition(tables.sites)
    /\ pc = "type" => ~avl_search(sites, position)
    /\ (Returned /\ flags /\ HasDuplicatePosition(entry.tables.sites)) =>
          /\ ret # OK
          /\ (check_integrity(entry.tables) /\ CompatibleMap(entry.tables)) =>
                ret = MSP_ERR_DUPLICATE_SITE_POSITION

\* A successful call that kept two existing sites and generated two more.
C2_Witness ==
    /\ Succeeded /\ flags
    /\ Len(entry.tables.sites) = 2
    /\ Len(tables.sites) >= 4

\* C9: when generate returns an integrity error, IncompatibleMutationMap or
\* DuplicateSitePosition, the tables are as they were at entry and no random
\* draw has been made.
C9_ValidationFailsFast ==
    (Returned /\ ret \in {TSK_ERR_INTEGRITY, MSP_ERR_INCOMPATIBLE_MUTATION_MAP,
                          MSP_ERR_DUPLICATE_SITE_POSITION}) =>
        /\ tables = entry.tables
        /\ rng = entry.rng
        /\ draws = << >>

\* A call that failed on a duplicate among the sites it was importing.
C9_Witness ==
    /\ Returned /\ ret = MSP_ERR_DUPLICATE_SITE_POSITION
    /\ Len(tables.sites) = 2 /\ Len(tables.mutations) = 1

\* C6: with a rate map installed (one set_map accepts), a second generate
\* call, on the same input tables, from the same generator state and with
\* the same map, time window and flags as the first, returns what the first
\* returned and leaves the same tables, whatever the first call left in the
\* instance.
C6_SecondCallSameOutput ==
    (Returned /\ calls = 2 /\ ValidMap) => (ret = prev.ret /\ tables = prev.tables)

\* A second call that ran on an instance whose tree the first call had
\* filled, and generated mutations again.
C6_Witness ==
    /\ Succeeded /\ calls = 2 /\ ValidMap
    /\ Len(sites) >= 2
    /\ Len(tables.mutations) > Len(entry.tables.mutations)

\* Whether draw d may come right after draw p: a Poisson draw follows the
\* last draw of the sub-interval before it (of the same edge or the last of
\* the edge before); a position draw follows the Poisson draw of its
\* sub-interval or the type draw of the mutation before it; a type draw
\* follows the position draws of its mutation.
DrawFollows(p, d) ==
    CASE d.kind = "poisson" ->
            /\ p.kind # "position"
            /\ p.kind = "poisson" => p.k = 0
            /\ p.kind = "type" => p.l = p.k - 1
            /\ \/ d.edge = p.edge /\ d.map_index = p.map_index + 1
               \/ d.edge = p.edge + 1
      [] d.kind = "position" ->
            /\ d.edge = p.edge /\ d.map_index = p.map_index /\ d.k = p.k
            /\ d.l < d.k
            /\ \/ p.kind = "poisson" /\ d.l = 0
               \/ p.kind = "type" /\ d.l = p.l + 1
      [] d.kind = "type" ->
            /\ p.kind = "position"
            /\ d.edge = p.edge /\ d.map_index = p.map_index /\ d.k = p.k /\ d.l = p.l

\* The map intervals that meet edge e (0-based) of the tables.
IntervalsOf(e) ==
    { m \in 0..(map.size - 1) :
        /\ MapPosition(m) < tables.edges[e + 1].right
        /\ MapPosition(m + 1) > tables.edges[e + 1].left }

\* C5: the random draws of a call come in a fixed order: edges in table
\* order; within an edge the map intervals left to right, one Poisson draw
\* each; within a sub-interval, for each of its k mutations in turn, position
\* draws and then one type draw.  Under a valid map a call that returns 0
\* has drawn exactly one count for every map interval that meets each edge.
C5_DrawOrder ==
    /\ \A i \in 1..Len(draws) :
          IF i = 1 THEN draws[1].kind = "poisson" /\ draws[1].edge = 0
          ELSE DrawFollows(draws[i - 1], draws[i])
    /\ pc = "type" => draws[Len(draws)].kind = "position"
    /\ Cardinality({i \in 1..Len(draws) : draws[i].kind = "poisson"}) = Len(log)
    /\ (Succeeded /\ ValidMap) =>
          \A e \in 0..(Len(tables.edges) - 1) : \A m \in 0..(map.size - 1) :
             Cardinality({i \in 1..Len(log) : log[i].edge = e /\ log[i].map_index = m})
                = IF m \in IntervalsOf(e) THEN 1 ELSE 0

\* A call over two edges and several map intervals has returned, having
\* placed two mutations in one sub-interval.
C5_Witness ==
    /\ Succeeded /\ ValidMap /\ map.size >= 2
    /\ \E i \in 1..Len(draws) : draws[i].kind = "type" /\ draws[i].l = 1
    /\ \E i \in 1..Len(draws) : draws[i].edge = 1 /\ draws[i].kind = "type"

\* The input is ordered as a tree sequence's tables are: sites by position,
\* mutations by site, every parent an earlier mutation of the same site.
SortedInput(t) ==
    /\ \A i \in 2..Len(t.sites) : t.sites[i - 1].position < t.sites[i].position
    /\ \A i \in 2..Len(t.mutations) : t.mutations[i - 1].site <= t.mutations[i].site
    /\ \A i \in 1..Len(t.mutations) :
          t.mutations[i].parent # TSK_NULL =>
             /\ t.mutations[i].parent < i - 1
             /\ t.mutations[t.mutations[i].parent + 1].site = t.mutations[i].site

\* Every non-null parent is a strictly earlier row of the same site.
ParentsWellFormed(rows) ==
    \A r \in 1..Len(rows) :
        rows[r].parent # TSK_NULL =>
           /\ rows[r].parent \in 0..(r - 2)
           /\ rows[rows[r].parent + 1].site = rows[r].site

\* Row r of the output mutation table is a generated mutation: its site is
\* at a position no input site had.
GeneratedRow(r) ==
    \A i \in 1..Len(entry.tables.sites) :
        entry.tables.sites[i].position # tables.sites[tables.mutations[r].site + 1].position

OutputParents ==
    /\ ParentsWellFormed(tables.mutations)
    /\ \A r \in 1..Len(tables.mutations) :
          GeneratedRow(r) => tables.mutations[r].parent = TSK_NULL

\* C3 as stated: for any input that passes the integrity check, after a
\* successful generate with keep_existing_sites every non-null parent of the
\* output refers to a strictly earlier row of the same site, and every
\* generated mutation has parent null.
C3_ParentsOfAnyInput == (Succeeded /\ flags) => OutputParents

\* C3, amended: the same for input tables whose sites are in strictly
\* increasing position order, whose mutations are in site order and whose
\* parents are earlier rows of the same site.
C3_ParentsOfSortedInput ==
    (Succeeded /\ flags /\ SortedInput(entry.tables)) => OutputParents

\* A sorted input with stacked mutations came out with a generated mutation
\* ahead of a parent, so that the parent's row number moved.
C3_Witness ==
    /\ Succeeded /\ flags /\ SortedInput(entry.tables)
    /\ \E r \in 1..Len(tables.mutations) :
          /\ tables.mutations[r].parent # TSK_NULL
          /\ \E q \in 1..(tables.mutations[r].parent + 1) : GeneratedRow(q)

\* The mutations of site s (0-based) in a mutation table, in row order,
\* without their row numbers.
MutationsOf(rows, s) ==
    LET own == SelectSeq(rows, LAMBDA m : m.site = s)
    IN [k \in 1..Len(own) |-> <<own[k].node, own[k].derived_state, own[k].metadata>>]

RECURSIVE Generated(_)
Generated(i) == IF i = 0 THEN 0 ELSE log[i].k + Generated(i - 1)

OutputKeepsInput ==
    /\ \A i \in 1..Len(entry.tables.sites) :
          /\ Cardinality({o \in 1..Len(tables.sites) :
                 tables.sites[o].position = entry.tables.sites[i].position}) = 1
          /\ \A o \in 1..Len(tables.sites) :
                tables.sites[o].position = entry.tables.sites[i].position =>
                   /\ tables.sites[o] = entry.tables.sites[i]
                   /\ MutationsOf(tables.mutations, o - 1)
                         = MutationsOf(entry.tables.mutations, i - 1)
    /\ Len(tables.mutations) = Len(entry.tables.mutations) + Generated(Len(log))

\* C4 as stated: for any input that passes the integrity check, a successful
\* generate with keep_existing_sites puts every input site row in the output
\* once, every input mutation under the site of its position in its order,
\* and as many mutation rows as the input had plus the generated ones.
C4_KeepsAnyInput == (Succeeded /\ flags) => OutputKeepsInput

\* C4, amended: the same for input tables whose mutation rows are in site
\* order.
C4_KeepsInputInSiteOrder ==
    (Succeeded /\ flags /\
       \A i \in 2..Len(entry.tables.mutations) :
          entry.tables.mutations[i - 1].site <= entry.tables.mutations[i].site)
    => OutputKeepsInput

\* Four existing mutations on two sites were kept and one more generated.
C4_Witness ==
    /\ Succeeded /\ flags
    /\ Len(entry.tables.mutations) = 4
    /\ Len(tables.mutations) >= 5
    /\ Len(tables.sites) >= 3

\* C10: under a rate map that set_map accepted, every generate call that got
\* past validation returns: while it walks an edge the map index stays in
\* 0..size-1, and the rejection loop of every mutation comes to an end.
C10_GenerateReturns ==
    /\ [](MapView(map) \in AcceptedMaps /\ pc \in {"mutation", "type"}
             => map_index \in 0..(map.size - 1))
    /\ (MapView(map) \in AcceptedMaps /\ pc # "idle") ~> (pc = "idle")

====
